---- MODULE Spec2Model ----
(***************************************************************************)
(* A model of logsviewer's tailing-and-parsing engine: the Tailer (one     *)
(* worker goroutine per file, fanning into two bounded channels that a     *)
(* closer goroutine closes once every worker returned), the fileState      *)
(* cursor with readAll / readNewLines, and parseEntry with its timestamp   *)
(* heuristics.                                                             *)
(*                                                                         *)
(* Files are sequences of units.  A unit is a line terminator NL, a        *)
(* carriage return CR, or a whole JSON text (a run of bytes that holds no  *)
(* terminator, counted as one unit of offset).  A line made of exactly one *)
(* JSON text decodes as json.Unmarshal decodes that text; any other        *)
(* non-empty line is not valid JSON.                                       *)
(***************************************************************************)
EXTENDS Integers, Sequences, FiniteSets, TLC

(***************************************************************************)
(* Bounds of the model.                                                    *)
(***************************************************************************)
\* operations of the writers on the tailed file, one worker running
MaxOps == 2
\* operations of the writers on the tailed files, two workers running
PairOps == 1
\* lines a tailed file holds before the tailer starts
PreLines == 1
\* capacity of the entries channel (256 in the program)
EntriesCap == 1
\* capacity of the errs channel (64 in the program)
ErrsCap == 1
\* capacity of a watcher's event queue
MaxEvents == 1

(***************************************************************************)
(* Generic helpers.                                                        *)
(***************************************************************************)
Min(x, y) == IF x < y THEN x ELSE y

Max(x, y) == IF x > y THEN x ELSE y

\* s[from..], 1-based; <<>> when from is past the end
Drop(s, n) == SubSeq(s, n + 1, Len(s))

Take(s, n) == SubSeq(s, 1, Min(n, Len(s)))

IsSuffix(t, s) == Len(t) <= Len(s) /\ SubSeq(s, Len(s) - Len(t) + 1, Len(s)) = t

RECURSIVE SeqFilterPath(_, _)
SeqFilterPath(s, p) ==
    IF s = <<>> THEN <<>>
    ELSE IF Head(s).Path = p THEN <<Head(s)>> \o SeqFilterPath(Tail(s), p)
    ELSE SeqFilterPath(Tail(s), p)

(***************************************************************************)
(* Decimal numbers m * 10^e.  The timestamps of interest reach 1.7e18,     *)
(* past the checker's integers, so a number keeps a small mantissa and a   *)
(* decimal exponent; the sampled values are integers that float64 and      *)
(* int64 hold exactly, so int64(n) is n and the products are exact.        *)
(***************************************************************************)
RECURSIVE Pow10(_)
Pow10(k) == IF k = 0 THEN 1 ELSE 10 * Pow10(k - 1)

Dec(m, e) == [m |-> m, e |-> e]

RECURSIVE Normal(_)
Normal(n) ==
    IF n.m = 0 THEN Dec(0, 0)
    ELSE IF n.m % 10 = 0 THEN Normal(Dec(n.m \div 10, n.e + 1))
    ELSE n

\* n > 10^k
GtPow10(n, k) ==
    LET x == Normal(n) IN
    IF x.m = 0 THEN FALSE
    ELSE IF x.e >= k THEN x.m > 1 \/ x.e > k
    ELSE IF k - x.e > 9 THEN FALSE
    ELSE x.m > Pow10(k - x.e)

\* n * 10^k
Scale(n, k) == Normal(Dec(n.m, n.e + k))

(***************************************************************************)
(* time.Time: the zero Time, or an instant given as nanoseconds since the  *)
(* epoch.                                                                  *)
(***************************************************************************)
ZeroTime == [zero |-> TRUE, ns |-> Dec(0, 0)]

\* time.Unix(0, nsec)
UnixNano(n) == [zero |-> FALSE, ns |-> Normal(n)]

\* time.Unix(sec, 0)
UnixSec(n) == [zero |-> FALSE, ns |-> Scale(n, 9)]

parseUnixNumber(n) ==
    IF GtPow10(n, 18) THEN UnixNano(n)
    ELSE IF GtPow10(n, 15) THEN UnixNano(n)
    ELSE IF GtPow10(n, 12) THEN UnixNano(Scale(n, 6))
    ELSE IF GtPow10(n, 9) THEN UnixSec(n)
    ELSE UnixNano(Scale(n, 9))

(***************************************************************************)
(* Decoded JSON values (the `any` of map[string]any).  A string keeps its  *)
(* text in s, a number its value in n; a boolean, an object or an array    *)
(* keeps its compact JSON text in s.                                       *)
(***************************************************************************)
JNil == [t |-> "nil", s |-> "", n |-> Dec(0, 0)]

JStr(s) == [t |-> "string", s |-> s, n |-> Dec(0, 0)]

JNum(n) == [t |-> "number", s |-> "", n |-> n]

JBool(s) == [t |-> "bool", s |-> s, n |-> Dec(0, 0)]

JObj(s) == [t |-> "object", s |-> s, n |-> Dec(0, 0)]

JArr(s) == [t |-> "array", s |-> s, n |-> Dec(0, 0)]

\* the member names the sampled objects use
Keys == {"timestamp", "message", "level", "@file", "seq"}

\* a Go map lookup of a missing key yields nil
NoFields == [k \in Keys |-> JNil]

(***************************************************************************)
(* Units of file content.  A JSON text is named by what it holds: its kind *)
(* and, for an object, its members.                                        *)
(***************************************************************************)
NL == [t |-> "nl", f |-> NoFields]

CR == [t |-> "cr", f |-> NoFields]

JsonObject(f) == [t |-> "obj", f |-> f]

\* a JSON text that is not an object: "null", "array", "string", "number",
\* "bool", or "bad" for text that is not JSON at all
JsonOther(kind) == [t |-> kind, f |-> NoFields]

\* {"seq":k,"message":"line"}: the k-th line written to a healthy file
SeqLine(k) ==
    JsonObject([NoFields EXCEPT !["seq"] = JNum(Dec(k, 0)),
                                !["message"] = JStr("line")])

Malformed == JsonOther("bad")

(***************************************************************************)
(* Texts: the strings parseEntry produces.  A literal text keeps its       *)
(* characters; the decimal rendering of a number keeps the number.         *)
(***************************************************************************)
Lit(s) == [num |-> FALSE, s |-> s, n |-> Dec(0, 0)]

Decimal(n) == [num |-> TRUE, s |-> "", n |-> Normal(n)]

(***************************************************************************)
(* json.Unmarshal([]byte(line), &fields) with fields a map[string]any.     *)
(* Carriage returns are JSON white space.  An object fills the map; null   *)
(* leaves a nil map and no error; any other value, no value at all, or     *)
(* text after the first value is an error.                                 *)
(***************************************************************************)
RECURSIVE StripSpace(_)
StripSpace(line) ==
    IF line = <<>> THEN <<>>
    ELSE IF Head(line).t = "cr" THEN StripSpace(Tail(line))
    ELSE <<Head(line)>> \o StripSpace(Tail(line))

jsonUnmarshal(line) ==
    LET v == StripSpace(line) IN
    IF Len(v) = 1 /\ v[1].t = "obj" THEN [err |-> FALSE, fields |-> v[1].f]
    ELSE IF Len(v) = 1 /\ v[1].t = "null" THEN [err |-> FALSE, fields |-> NoFields]
    ELSE [err |-> TRUE, fields |-> NoFields]

(***************************************************************************)
(* parseTimeString: the layouts, then strconv.ParseFloat.  The sampled     *)
(* strings are one RFC 3339 text, one bare number and one that is neither. *)
(***************************************************************************)
parseTimeString(s) ==
    IF s = "2024-01-01T00:00:00Z"
    THEN [ok |-> TRUE, ts |-> UnixSec(Dec(1704067200, 0))]
    ELSE IF s = "1700000000"
    THEN [ok |-> TRUE, ts |-> parseUnixNumber(Dec(1700000000, 0))]
    ELSE [ok |-> FALSE, ts |-> ZeroTime]

extractTimestamp(v) ==
    IF v.t = "string" THEN parseTimeString(v.s).ts
    ELSE IF v.t = "number" THEN parseUnixNumber(v.n)
    ELSE ZeroTime

extractString(v) ==
    IF v.t = "nil" THEN Lit("")
    ELSE IF v.t = "number" THEN Decimal(v.n)
    ELSE Lit(v.s)

(***************************************************************************)
(* parseEntry.  TimestampText is not modelled.                             *)
(***************************************************************************)
ParserConfig(extra) ==
    [TimestampField |-> "timestamp", MessageField |-> "message", ExtraFields |-> extra]

Range(s) == {s[i] : i \in 1..Len(s)}

\* LogEntry{}
NoEntry ==
    [Path |-> "", Timestamp |-> ZeroTime, Message |-> Lit(""),
     Extras |-> [x \in {} |-> Lit("")], Fields |-> NoFields, Raw |-> <<>>]

ParseError(path) == [Path |-> path, Kind |-> "parse"]

NoError == [Path |-> "", Kind |-> ""]

\* the mutant reads every extra field, "@file" too, from the JSON object
parseEntryNoVirtual(path, line, cfg) ==
    LET d == jsonUnmarshal(line) IN
    IF d.err THEN [err |-> ParseError(path), entry |-> NoEntry]
    ELSE [err |-> NoError,
          entry |->
            [Path |-> path,
             Timestamp |-> extractTimestamp(d.fields[cfg.TimestampField]),
             Message |-> extractString(d.fields[cfg.MessageField]),
             Extras |-> [x \in Range(cfg.ExtraFields) |-> extractString(d.fields[x])],
             Fields |-> d.fields,
             Raw |-> line]]

parseEntry(path, line, cfg) ==
    LET d == jsonUnmarshal(line) IN
    IF d.err THEN [err |-> ParseError(path), entry |-> NoEntry]
    ELSE [err |-> NoError,
          entry |->
            [Path |-> path,
             Timestamp |-> extractTimestamp(d.fields[cfg.TimestampField]),
             Message |-> extractString(d.fields[cfg.MessageField]),
             Extras |-> [x \in Range(cfg.ExtraFields) |->
                            IF x = "@file" THEN Lit(path)
                            ELSE extractString(d.fields[x])],
             Fields |-> d.fields,
             Raw |-> line]]

(***************************************************************************)
(* The tailer.  A writer may append a whole line to a tailed file (a valid *)
(* object, malformed text or nothing but the terminator), cut the file to  *)
(* no bytes, remove or rename the path away, create it again, and take or  *)
(* give back the permission to read it; the setup of a watcher may fail.   *)
(***************************************************************************)
\* the paths a Tailer may be given
Paths == {"a.log", "b.log"}

Inodes == {1, 2, 3}

\* Options.TailLines, chosen at construction
TailLinesChoices == {0, 1}

\* Tailer.parser
Parser == ParserConfig(<<"@file">>)

VARIABLES
    files,          \* Tailer.files
    tailLines,      \* Tailer.tailLines
    ino,            \* inode -> content, a sequence of units
    dirent,         \* path -> inode, 0 when the path does not exist
    readable,       \* path -> whether an open of the existing file succeeds
    opsLeft,        \* operations the writers may still do
    pure,           \* history: path -> only whole valid lines were appended so far
    mark,           \* history: path -> the entries its worker had placed when the
                    \* file was last cut below the cursor, -1 when it was not
    born,           \* history: path -> the entries its worker had placed when the
                    \* path was last created again, -1 when it was not or when
                    \* the worker was then in the middle of a batch
    cancelled,      \* ctx.Done() is closed
    pc,             \* worker -> its position in tailFile
    state,          \* worker -> fileState: [offset, pending]
    lines,          \* worker -> the lines of the batch being emitted
    idx,            \* worker -> index into lines of the next line to emit
    fd,             \* worker -> inode of the file it holds open, 0 if none
    watcher,        \* worker -> whether its fsnotify watcher is set up
    events,         \* worker -> queued events of watcher.Events: [Name, Op]
    entries,        \* the entries channel
    errs,           \* the errs channel
    entriesClosed,
    errsClosed,
    delivered,      \* history: the entries the consumer received, in order
    scanned,        \* history: worker -> the lines readAll returned
    reads,          \* history: worker -> for every readNewLines that read bytes,
                    \* the lines it returned and the pending it left
    bSent,          \* history: worker -> entries placed during the current batch
    bErrs,          \* history: worker -> errors placed during the current batch
    pIn,            \* the parser on its own: its input
    pOut            \* the parser on its own: its result

cfgVars == <<files, tailLines>>

fsVars == <<ino, dirent, readable, opsLeft, pure, mark, born>>

chanVars == <<entries, errs, entriesClosed, errsClosed>>

batchVars == <<lines, idx, bSent, bErrs>>

tailVars ==
    <<cfgVars, fsVars, cancelled, pc, state, fd, watcher, events, chanVars, delivered,
      scanned, reads, batchVars>>

parseVars == <<pIn, pOut>>

vars == <<tailVars, parseVars>>

(***************************************************************************)
(* Line splitting.                                                         *)
(***************************************************************************)
indexOfNewline(s) ==
    IF \E i \in 1..Len(s) : s[i] = NL
    THEN CHOOSE i \in 1..Len(s) : s[i] = NL /\ \A j \in 1..(i - 1) : s[j] # NL
    ELSE 0

\* a trailing carriage return removed (dropCR of bufio, and lines 409-411)
dropCR(seg) ==
    IF Len(seg) > 0 /\ seg[Len(seg)] = CR THEN SubSeq(seg, 1, Len(seg) - 1) ELSE seg

\* bufio.Scanner with bufio.ScanLines over the whole file: every terminated
\* line, and at end of file the non-empty remainder as a last line
RECURSIVE ScanLines(_)
ScanLines(data) ==
    LET i == indexOfNewline(data) IN
    IF i > 0 THEN <<dropCR(SubSeq(data, 1, i - 1))>> \o ScanLines(Drop(data, i))
    ELSE IF Len(data) > 0 THEN <<dropCR(data)>>
    ELSE <<>>

\* scanner.Buffer, line 358: the largest token the scanner of readAll can
\* hold, in units of the model (4 MiB in the program)
LineCap == 4

\* scanner.Err() of readAll, line 362: bufio.ErrTooLong, raised when the
\* buffer is full at LineCap bytes and holds no terminator
RECURSIVE ErrTooLong(_)
ErrTooLong(data) ==
    LET i == indexOfNewline(data) IN
    IF i > 0 THEN i > LineCap \/ ErrTooLong(Drop(data, i))
    ELSE Len(data) >= LineCap

\* the mutant leaves pending as it is
ExtractLinesLazy(pending, acc) == [pending |-> pending, lines |-> acc]

\* the inner loop of readNewLines (lines 403-414): complete lines leave pending
RECURSIVE ExtractLines(_, _)
ExtractLines(pending, acc) ==
    LET i == indexOfNewline(pending) IN
    IF i = 0 THEN [pending |-> pending, lines |-> acc]
    ELSE ExtractLines(Drop(pending, i), Append(acc, dropCR(SubSeq(pending, 1, i - 1))))

\* the mutant starts every read with nothing pending
RECURSIVE ReadLoopForgetful(_, _, _)
ReadLoopForgetful(data, s, acc) ==
    IF data = <<>> THEN [state |-> [offset |-> s.offset, pending |-> <<>>], lines |-> acc]
    ELSE LET i == indexOfNewline(data)
             n == IF i = 0 THEN Len(data) ELSE i
         IN ReadLoopForgetful(Drop(data, n),
                [offset |-> s.offset + n, pending |-> <<>>],
                IF i = 0 THEN acc ELSE Append(acc, dropCR(SubSeq(data, 1, n - 1))))

\* the outer loop of readNewLines (lines 395-419): ReadString('\n') hands over
\* one chunk at a time, up to and including a terminator or up to end of file
RECURSIVE ReadLoop(_, _, _)
ReadLoop(data, s, acc) ==
    IF data = <<>> THEN [state |-> s, lines |-> acc]
    ELSE LET i == indexOfNewline(data)
             n == IF i = 0 THEN Len(data) ELSE i
             x == ExtractLines(s.pending \o SubSeq(data, 1, n), acc)
         IN ReadLoop(Drop(data, n),
                     [offset |-> s.offset + n, pending |-> x.pending],
                     x.lines)

\* fileState.reset
reset == [offset |-> 0, pending |-> <<>>]

\* the mutant keeps the first n lines
TailCutHead(ls, n) ==
    IF n > 0 /\ Len(ls) > n THEN SubSeq(ls, 1, n) ELSE ls

\* the mutant passes over the blank lines first and keeps the last n others
TailCutOfNonBlank(ls, n) ==
    LET full == SelectSeq(ls, LAMBDA l : l # <<>>)
    IN IF n > 0 /\ Len(full) > n THEN SubSeq(full, Len(full) - n + 1, Len(full)) ELSE full

\* lines 328-330 of emitInitial
TailCut(ls, n) ==
    IF n > 0 /\ Len(ls) > n THEN SubSeq(ls, Len(ls) - n + 1, Len(ls)) ELSE ls

(***************************************************************************)
(* The file system.                                                        *)
(***************************************************************************)
Linked(i) == \E f \in Paths : dirent[f] = i

\* the content of an inode goes when its last link and last descriptor go
Closed(w, content) ==
    IF fd[w] # 0 /\ ~Linked(fd[w]) /\ \A v \in Paths \ {w} : fd[v] # fd[w]
    THEN [content EXCEPT ![fd[w]] = <<>>]
    ELSE content

Unused(i) == ~Linked(i) /\ \A v \in Paths : fd[v] # i

FreeInode == CHOOSE i \in Inodes : Unused(i) /\ \A j \in Inodes : Unused(j) => i <= j

\* a path as a sequence of elements; the tailed path w is the one element w
\* of the watched directory
PathName(w) == <<w>>

\* filepath.Clean, as far as the names of one directory need it: the "."
\* elements are dropped
Clean(name) == SelectSeq(name, LAMBDA e : e # ".")

\* the mutant lets every event of the directory through
eventHasAnyPath(event, path) == event.Name # <<>>

eventHasPath(event, path) ==
    \/ event.Name = PathName(path)
    \/ Clean(event.Name) = Clean(PathName(path))

\* an fsnotify.Event: the name it carries and the set of bits of its Op
Event(name, ops) == [Name |-> name, Op |-> ops]

\* an event is queued for the worker when its watcher runs and has room;
\* a notification may also be missed
Notify(f, op, seen) ==
    IF seen /\ watcher[f] /\ Len(events[f]) < MaxEvents
    THEN [events EXCEPT ![f] = Append(@, Event(PathName(f), {op}))]
    ELSE events

NumLines(content) == Cardinality({i \in 1..Len(content) : content[i] = NL})

(***************************************************************************)
(* Initial state: Start has created both channels and one worker per file; *)
(* no worker has run yet.                                                  *)
(***************************************************************************)
RECURSIVE SeqLines(_)
SeqLines(k) == IF k = 0 THEN <<>> ELSE SeqLines(k - 1) \o <<SeqLine(k), NL>>

NoInput == [path |-> "", line |-> <<>>, cfg |-> ParserConfig(<<>>)]

NoOutput == [done |-> FALSE, err |-> NoError, entry |-> NoEntry]

\* Start, lines 204-215, for the files fs; a.log exists and holds content,
\* b.log does not exist yet
StartedWith(fs, content) ==
    /\ files = fs
    /\ ino = [i \in Inodes |-> IF i = 1 THEN content ELSE <<>>]
    /\ dirent = [f \in Paths |-> IF f = "a.log" THEN 1 ELSE 0]
    /\ readable = [f \in Paths |-> TRUE]
    /\ pure = [f \in Paths |-> TRUE]
    /\ mark = [f \in Paths |-> -1]
    /\ born = [f \in Paths |-> -1]
    /\ cancelled = FALSE
    /\ pc = [w \in Paths |-> IF w \in fs THEN "start" ELSE "none"]
    /\ state = [w \in Paths |-> reset]
    /\ lines = [w \in Paths |-> <<>>]
    /\ idx = [w \in Paths |-> 0]
    /\ fd = [w \in Paths |-> 0]
    /\ watcher = [w \in Paths |-> FALSE]
    /\ events = [w \in Paths |-> <<>>]
    /\ entries = <<>>
    /\ errs = <<>>
    /\ entriesClosed = FALSE
    /\ errsClosed = FALSE
    /\ delivered = <<>>
    /\ scanned = [w \in Paths |-> <<>>]
    /\ reads = [w \in Paths |-> <<>>]
    /\ bSent = [w \in Paths |-> <<>>]
    /\ bErrs = [w \in Paths |-> <<>>]

\* a.log holds pre whole valid lines
Started(fs, pre) == StartedWith(fs, SeqLines(pre))

\* one file is tailed
Init ==
    /\ Started({"a.log"}, PreLines)
    /\ tailLines \in TailLinesChoices
    /\ opsLeft = MaxOps
    /\ pIn = NoInput
    /\ pOut = NoOutput

(***************************************************************************)
(* The worker: tailFile.                                                   *)
(***************************************************************************)
Err(w, kind) == [Path |-> w, Kind |-> kind]

\* lines 236-248: the watcher is set up
SetupWatcher(w) ==
    /\ pc[w] = "start"
    /\ watcher' = [watcher EXCEPT ![w] = TRUE]
    /\ pc' = [pc EXCEPT ![w] = "initial"]
    /\ UNCHANGED <<cfgVars, fsVars, cancelled, state, fd, events, chanVars, delivered,
                   scanned, reads, batchVars, parseVars>>

\* the mutant goes on without a watcher and says nothing
SetupFailsSilently(w) ==
    /\ pc[w] = "start"
    /\ pc' = [pc EXCEPT ![w] = "initial"]
    /\ UNCHANGED <<cfgVars, fsVars, cancelled, state, fd, watcher, events, chanVars,
                   delivered, scanned, reads, batchVars, parseVars>>

\* lines 238-247: NewWatcher or Add failed; the error is sent next
SetupFails(w) ==
    /\ pc[w] = "start"
    /\ pc' = [pc EXCEPT ![w] = "setupErr"]
    /\ UNCHANGED <<cfgVars, fsVars, cancelled, state, fd, watcher, events, chanVars,
                   delivered, scanned, reads, batchVars, parseVars>>

\* the mutant makes every error of setup or read fatal to the worker
SendErrFatal(w) ==
    /\ pc[w] \in {"setupErr", "initErr", "tailErr"}
    /\ Len(errs) < ErrsCap
    /\ errs' = Append(errs, Err(w, "fatal"))
    /\ pc' = [pc EXCEPT ![w] = "done"]
    /\ UNCHANGED <<cfgVars, fsVars, cancelled, state, fd, watcher, events, entries,
                   entriesClosed, errsClosed, delivered, scanned, reads, batchVars, parseVars>>

\* a plain send on errs (lines 240, 247, 258, 324): it waits for room and for
\* nothing else
SendErr(w) ==
    /\ pc[w] \in {"setupErr", "initErr", "tailErr"}
    /\ Len(errs) < ErrsCap
    /\ errs' = Append(errs, Err(w, CASE pc[w] = "setupErr" -> "watch"
                                     [] pc[w] = "initErr" -> "initial read"
                                     [] OTHER -> "tail"))
    /\ pc' = [pc EXCEPT ![w] = IF pc[w] = "setupErr" THEN "initial" ELSE "loop"]
    /\ UNCHANGED <<cfgVars, fsVars, cancelled, state, fd, watcher, events, entries,
                   entriesClosed, errsClosed, delivered, scanned, reads, batchVars, parseVars>>

\* readAll, lines 350-364: open the file and scan it to its end; a failed
\* open and a token too long for the scanner both return an error
ReadAllScan(w) ==
    /\ pc[w] = "initial"
    /\ IF dirent[w] = 0
       THEN /\ pc' = [pc EXCEPT ![w] = "loop"]
            /\ UNCHANGED <<fd, lines, scanned, reads>>
       ELSE IF ~readable[w] \/ ErrTooLong(ino[dirent[w]])
       THEN /\ pc' = [pc EXCEPT ![w] = "initErr"]
            /\ UNCHANGED <<fd, lines, scanned, reads>>
       ELSE /\ pc' = [pc EXCEPT ![w] = "initStat"]
            /\ fd' = [fd EXCEPT ![w] = dirent[w]]
            /\ lines' = [lines EXCEPT ![w] = ScanLines(ino[dirent[w]])]
            /\ scanned' = [scanned EXCEPT ![w] = ScanLines(ino[dirent[w]])]
    /\ UNCHANGED <<cfgVars, fsVars, cancelled, state, watcher, events, chanVars, reads,
                   delivered, idx, bSent, bErrs, parseVars>>

\* readAll, lines 365-369, and emitInitial, lines 328-330: the size the open
\* file has now becomes the offset, then the tail cut
ReadAllStat(w) ==
    /\ pc[w] = "initStat"
    /\ state' = [state EXCEPT ![w] = [offset |-> Len(ino[fd[w]]), pending |-> <<>>]]
    /\ ino' = Closed(w, ino)
    /\ fd' = [fd EXCEPT ![w] = 0]
    /\ lines' = [lines EXCEPT ![w] = TailCut(lines[w], tailLines)]
    /\ idx' = [idx EXCEPT ![w] = 1]
    /\ bSent' = [bSent EXCEPT ![w] = <<>>]
    /\ bErrs' = [bErrs EXCEPT ![w] = <<>>]
    /\ pc' = [pc EXCEPT ![w] = "emitInitial"]
    /\ UNCHANGED <<cfgVars, born, dirent, readable, opsLeft, pure, mark, cancelled, watcher, events,
                   chanVars, delivered, scanned, reads, parseVars>>

\* the mutant seeks to the old offset whatever the size is
BeginReadNoRewind(w, s) ==
    /\ pc' = [pc EXCEPT ![w] = IF dirent[w] = 0 THEN "loop"
                                ELSE IF ~readable[w] THEN "tailErr" ELSE "readNew"]
    /\ state' = [state EXCEPT ![w] = s]
    /\ fd' = [fd EXCEPT ![w] = IF dirent[w] # 0 /\ readable[w] THEN dirent[w] ELSE @]

\* readNewLines, lines 373-391: open, stat, reset on a shrunken file, seek
BeginRead(w, s) ==
    IF dirent[w] = 0
    THEN /\ pc' = [pc EXCEPT ![w] = "loop"]
         /\ state' = [state EXCEPT ![w] = s]
         /\ UNCHANGED fd
    ELSE IF ~readable[w]
    THEN /\ pc' = [pc EXCEPT ![w] = "tailErr"]
         /\ state' = [state EXCEPT ![w] = s]
         /\ UNCHANGED fd
    ELSE /\ pc' = [pc EXCEPT ![w] = "readNew"]
         /\ state' = [state EXCEPT ![w] =
                        IF Len(ino[dirent[w]]) < s.offset THEN reset ELSE s]
         /\ fd' = [fd EXCEPT ![w] = dirent[w]]

\* readNewLines, lines 393-421: read from the offset to the end of the file
ReadNew(w) ==
    /\ pc[w] = "readNew"
    /\ \E r \in {ReadLoop(Drop(ino[fd[w]], state[w].offset), state[w], <<>>)} :
        /\ state' = [state EXCEPT ![w] = r.state]
        /\ lines' = [lines EXCEPT ![w] = r.lines]
        /\ reads' = [reads EXCEPT ![w] =
                        IF r.state.offset = state[w].offset THEN @
                        ELSE Append(@, [lines |-> r.lines, pending |-> r.state.pending])]
    /\ ino' = Closed(w, ino)
    /\ fd' = [fd EXCEPT ![w] = 0]
    /\ idx' = [idx EXCEPT ![w] = 1]
    /\ bSent' = [bSent EXCEPT ![w] = <<>>]
    /\ bErrs' = [bErrs EXCEPT ![w] = <<>>]
    /\ pc' = [pc EXCEPT ![w] = "emitNew"]
    /\ UNCHANGED <<cfgVars, born, dirent, readable, opsLeft, pure, mark, cancelled, watcher, events,
                   chanVars, delivered, scanned, parseVars>>

Emitting(w) == pc[w] \in {"emitInitial", "emitNew"} /\ idx[w] <= Len(lines[w])

Parsed(w) == parseEntry(w, lines[w][idx[w]], Parser)

\* the mutant hands the blank line to the parser, which rejects it
EmitSkipAsError(w) ==
    /\ Emitting(w)
    /\ lines[w][idx[w]] = <<>>
    /\ Len(errs) < ErrsCap
    /\ errs' = Append(errs, Parsed(w).err)
    /\ bErrs' = [bErrs EXCEPT ![w] = Append(@, Parsed(w).err)]
    /\ idx' = [idx EXCEPT ![w] = @ + 1]
    /\ UNCHANGED <<cfgVars, fsVars, cancelled, pc, state, fd, watcher, events,
                   entries, entriesClosed, errsClosed, delivered, scanned, reads, lines,
                   bSent, parseVars>>

\* lines 262-264 and 333-335: a blank line is passed over
EmitSkip(w) ==
    /\ Emitting(w)
    /\ lines[w][idx[w]] = <<>>
    /\ idx' = [idx EXCEPT ![w] = @ + 1]
    /\ UNCHANGED <<cfgVars, fsVars, cancelled, pc, state, fd, watcher, events,
                   chanVars, delivered, scanned, reads, lines, bSent, bErrs, parseVars>>

\* the mutant leaves the loop at the first line that does not parse
AfterParseErrorReturn(ls, i) == Len(ls) + 1

\* lines 268 and 339, continue: the loop goes on with the next line
AfterParseError(ls, i) == i + 1

\* lines 266-269 and 337-340: the parse error is sent on errs, a plain send
EmitError(w) ==
    /\ Emitting(w)
    /\ lines[w][idx[w]] # <<>>
    /\ Parsed(w).err # NoError
    /\ Len(errs) < ErrsCap
    /\ errs' = Append(errs, Parsed(w).err)
    /\ bErrs' = [bErrs EXCEPT ![w] = Append(@, Parsed(w).err)]
    /\ idx' = [idx EXCEPT ![w] = AfterParseError(lines[w], @)]
    /\ UNCHANGED <<cfgVars, fsVars, cancelled, pc, state, fd, watcher, events,
                   entries, entriesClosed, errsClosed, delivered, scanned, reads, lines,
                   bSent, parseVars>>

\* lines 270-274 and 341-345, the send case of the select: taken when the
\* channel has room, whether or not ctx.Done() is ready too
EmitEntry(w) ==
    /\ Emitting(w)
    /\ lines[w][idx[w]] # <<>>
    /\ Parsed(w).err = NoError
    /\ Len(entries) < EntriesCap
    /\ entries' = Append(entries, Parsed(w).entry)
    /\ bSent' = [bSent EXCEPT ![w] = Append(@, Parsed(w).entry)]
    /\ idx' = [idx EXCEPT ![w] = @ + 1]
    /\ UNCHANGED <<cfgVars, fsVars, cancelled, pc, state, fd, watcher, events, errs,
                   entriesClosed, errsClosed, delivered, scanned, reads, lines, bErrs,
                   parseVars>>

\* lines 271-272 and 342-343, the ctx.Done() case of the select: the batch is
\* abandoned
EmitCancelled(w) ==
    /\ Emitting(w)
    /\ lines[w][idx[w]] # <<>>
    /\ Parsed(w).err = NoError
    /\ cancelled
    /\ pc' = [pc EXCEPT ![w] = "loop"]
    /\ lines' = [lines EXCEPT ![w] = <<>>]
    /\ idx' = [idx EXCEPT ![w] = 0]
    /\ bSent' = [bSent EXCEPT ![w] = <<>>]
    /\ bErrs' = [bErrs EXCEPT ![w] = <<>>]
    /\ UNCHANGED <<cfgVars, fsVars, cancelled, state, fd, watcher, events, chanVars,
                   delivered, scanned, reads, parseVars>>

\* the range loop is over: emitInitial or readNewData returns to the select loop
EmitReturn(w) ==
    /\ pc[w] \in {"emitInitial", "emitNew"}
    /\ idx[w] > Len(lines[w])
    /\ pc' = [pc EXCEPT ![w] = "loop"]
    /\ lines' = [lines EXCEPT ![w] = <<>>]
    /\ idx' = [idx EXCEPT ![w] = 0]
    /\ bSent' = [bSent EXCEPT ![w] = <<>>]
    /\ bErrs' = [bErrs EXCEPT ![w] = <<>>]
    /\ UNCHANGED <<cfgVars, fsVars, cancelled, state, fd, watcher, events, chanVars,
                   delivered, scanned, reads, parseVars>>

\* lines 281-282 and 290-291: ctx.Done() is taken in the select loop; the
\* deferred calls stop the ticker, close the watcher and call wg.Done
LoopCancelled(w) ==
    /\ pc[w] = "loop"
    /\ cancelled
    /\ pc' = [pc EXCEPT ![w] = "done"]
    /\ watcher' = [watcher EXCEPT ![w] = FALSE]
    /\ events' = [events EXCEPT ![w] = <<>>]
    /\ UNCHANGED <<cfgVars, fsVars, cancelled, state, fd, chanVars, delivered,
                   scanned, reads, batchVars, parseVars>>

\* the mutant surfaces the absence of the file as an error of the read
TickSurfacing(w) ==
    /\ pc[w] = "loop"
    /\ pc' = [pc EXCEPT ![w] = IF dirent[w] = 0 THEN "tailErr" ELSE "loop"]
    /\ UNCHANGED <<cfgVars, fsVars, cancelled, state, fd, watcher, events, chanVars,
                   delivered, scanned, reads, batchVars, parseVars>>

\* lines 283-284 and 292-293: pollTicker.C is taken; readNewData starts.  The
\* tick may be ready at any time, also when ctx.Done() is.
Tick(w) ==
    /\ pc[w] = "loop"
    /\ BeginRead(w, state[w])
    /\ UNCHANGED <<cfgVars, fsVars, cancelled, watcher, events, chanVars, delivered,
                   scanned, reads, batchVars, parseVars>>

\* lines 294-302: a write event naming the path is taken; readNewData starts
EventWrite(w) ==
    /\ pc[w] = "loop"
    /\ watcher[w]
    /\ events[w] # <<>>
    /\ eventHasPath(Head(events[w]), w)
    /\ "write" \in Head(events[w]).Op
    /\ events' = [events EXCEPT ![w] = Tail(@)]
    /\ BeginRead(w, state[w])
    /\ UNCHANGED <<cfgVars, fsVars, cancelled, watcher, chanVars, delivered, scanned, reads,
                   batchVars, parseVars>>

\* lines 303-305: a remove, rename or create event naming the path is taken;
\* the cursor is reset and waitForReappear starts
EventReplace(w) ==
    /\ pc[w] = "loop"
    /\ watcher[w]
    /\ events[w] # <<>>
    /\ eventHasPath(Head(events[w]), w)
    /\ "write" \notin Head(events[w]).Op
    /\ Head(events[w]).Op \cap {"remove", "rename", "create"} # {}
    /\ events' = [events EXCEPT ![w] = Tail(@)]
    /\ state' = [state EXCEPT ![w] = reset]
    /\ pc' = [pc EXCEPT ![w] = "reappear"]
    /\ UNCHANGED <<cfgVars, fsVars, cancelled, fd, watcher, chanVars, delivered,
                   scanned, reads, batchVars, parseVars>>

\* waitForReappear, lines 444-445 and 446-449: it returns on ctx.Done() or
\* when a stat of the path succeeds; line 306 then calls readNewData
Reappeared(w) ==
    /\ pc[w] = "reappear"
    /\ cancelled \/ dirent[w] # 0
    /\ pc' = [pc EXCEPT ![w] = "readNewData"]
    /\ UNCHANGED <<cfgVars, fsVars, cancelled, state, fd, watcher, events, chanVars,
                   delivered, scanned, reads, batchVars, parseVars>>

\* line 306: readNewData after the wait
ReadAfterWait(w) ==
    /\ pc[w] = "readNewData"
    /\ BeginRead(w, state[w])
    /\ UNCHANGED <<cfgVars, fsVars, cancelled, watcher, events, chanVars, delivered,
                   scanned, reads, batchVars, parseVars>>

Worker(w) ==
    \/ SetupWatcher(w) \/ SetupFails(w) \/ SendErr(w)
    \/ ReadAllScan(w) \/ ReadAllStat(w) \/ ReadNew(w)
    \/ EmitSkip(w) \/ EmitError(w) \/ EmitEntry(w) \/ EmitCancelled(w) \/ EmitReturn(w)
    \/ LoopCancelled(w) \/ Tick(w) \/ EventWrite(w) \/ EventReplace(w)
    \/ Reappeared(w) \/ ReadAfterWait(w)

(***************************************************************************)
(* The closer goroutine of Start (lines 217-221), the consumer, and the    *)
(* cancellation of the context.                                            *)
(***************************************************************************)
\* the mutant counts one wg.Done for all
SomeReturned == \E w \in files : pc[w] = "done"

\* wg.Wait() returns: every worker called wg.Done
AllReturned == \A w \in files : pc[w] = "done"

CloseEntries ==
    /\ AllReturned
    /\ ~entriesClosed
    /\ entriesClosed' = TRUE
    /\ UNCHANGED <<cfgVars, fsVars, cancelled, pc, state, fd, watcher, events,
                   entries, errs, errsClosed, delivered, scanned, reads, batchVars, parseVars>>

CloseErrs ==
    /\ entriesClosed
    /\ ~errsClosed
    /\ errsClosed' = TRUE
    /\ UNCHANGED <<cfgVars, fsVars, cancelled, pc, state, fd, watcher, events,
                   entries, errs, entriesClosed, delivered, scanned, reads, batchVars,
                   parseVars>>

\* the consumer receives an entry (main.go hands the channel to the display)
RecvEntry ==
    /\ entries # <<>>
    /\ delivered' = Append(delivered, Head(entries))
    /\ entries' = Tail(entries)
    /\ UNCHANGED <<cfgVars, fsVars, cancelled, pc, state, fd, watcher, events, errs,
                   entriesClosed, errsClosed, scanned, reads, batchVars, parseVars>>

\* the consumer receives an error
RecvErr ==
    /\ errs # <<>>
    /\ errs' = Tail(errs)
    /\ UNCHANGED <<cfgVars, fsVars, cancelled, pc, state, fd, watcher, events,
                   entries, entriesClosed, errsClosed, delivered, scanned, reads, batchVars,
                   parseVars>>

\* the consumer cancels the context
Cancel ==
    /\ ~cancelled
    /\ cancelled' = TRUE
    /\ UNCHANGED <<cfgVars, fsVars, pc, state, fd, watcher, events, chanVars,
                   delivered, scanned, reads, batchVars, parseVars>>

(***************************************************************************)
(* The environment: the writers of the tailed files.                       *)
(***************************************************************************)
\* every entry a worker placed on the entries channel so far, in order
SentOf(f) == SeqFilterPath(delivered \o entries, f)

\* the line that follows the n lines a file holds, when it is a valid one
NextLine(n) == <<SeqLine(n + 1)>>

\* a whole line is appended: the next valid object, malformed text, or
\* nothing but the terminator
AppendLine(f) ==
    /\ opsLeft > 0
    /\ dirent[f] # 0
    /\ \E body \in {NextLine(NumLines(ino[dirent[f]])), <<Malformed>>, <<>>},
          seen \in BOOLEAN :
        /\ ino' = [ino EXCEPT ![dirent[f]] = @ \o body \o <<NL>>]
        /\ pure' = [pure EXCEPT ![f] = @ /\ body = NextLine(NumLines(ino[dirent[f]]))]
        /\ events' = Notify(f, "write", seen)
    /\ opsLeft' = opsLeft - 1
    /\ UNCHANGED <<cfgVars, born, readable, mark, dirent, cancelled, pc, state, fd, watcher, chanVars,
                   delivered, scanned, reads, batchVars, parseVars>>

\* the file is cut to no bytes
Truncate(f) ==
    /\ opsLeft > 0
    /\ dirent[f] # 0
    /\ ino[dirent[f]] # <<>>
    /\ \E seen \in BOOLEAN : events' = Notify(f, "write", seen)
    /\ ino' = [ino EXCEPT ![dirent[f]] = <<>>]
    /\ pure' = [pure EXCEPT ![f] = FALSE]
    /\ mark' = [mark EXCEPT ![f] = IF state[f].offset > 0 THEN Len(SentOf(f)) ELSE -1]
    /\ opsLeft' = opsLeft - 1
    /\ UNCHANGED <<cfgVars, born, readable, dirent, cancelled, pc, state, fd, watcher, chanVars,
                   delivered, scanned, reads, batchVars, parseVars>>

\* the path is removed, or renamed away
Remove(f) ==
    /\ opsLeft > 0
    /\ dirent[f] # 0
    /\ \E op \in {"remove", "rename"}, seen \in BOOLEAN : events' = Notify(f, op, seen)
    /\ dirent' = [dirent EXCEPT ![f] = 0]
    /\ ino' = IF \A w \in Paths : fd[w] # dirent[f]
              THEN [ino EXCEPT ![dirent[f]] = <<>>]
              ELSE ino
    /\ pure' = [pure EXCEPT ![f] = FALSE]
    /\ mark' = [mark EXCEPT ![f] = -1]
    /\ born' = [born EXCEPT ![f] = -1]
    /\ opsLeft' = opsLeft - 1
    /\ UNCHANGED <<cfgVars, readable, cancelled, pc, state, fd, watcher, chanVars, delivered,
                   scanned, reads, batchVars, parseVars>>

\* the path is created again, as a new empty file
Create(f) ==
    /\ opsLeft > 0
    /\ f \in files
    /\ dirent[f] = 0
    /\ \E seen \in BOOLEAN : events' = Notify(f, "create", seen)
    /\ dirent' = [dirent EXCEPT ![f] = FreeInode]
    /\ born' = [born EXCEPT ![f] = IF pc[f] \in {"loop", "reappear", "readNewData"}
                                   THEN Len(SentOf(f)) ELSE -1]
    /\ opsLeft' = opsLeft - 1
    /\ UNCHANGED <<cfgVars, readable, ino, pure, mark, cancelled, pc, state, fd, watcher, chanVars,
                   delivered, scanned, reads, batchVars, parseVars>>

\* the permission to read the file is taken away or given back
Chmod(f) ==
    /\ opsLeft > 0
    /\ dirent[f] # 0
    /\ readable' = [readable EXCEPT ![f] = ~@]
    /\ opsLeft' = opsLeft - 1
    /\ UNCHANGED <<cfgVars, born, ino, dirent, pure, mark, cancelled, pc, state, fd, watcher,
                   events, chanVars, delivered, scanned, reads, batchVars, parseVars>>

Writer(f) == AppendLine(f) \/ Truncate(f) \/ Remove(f) \/ Create(f) \/ Chmod(f)

Next ==
    \/ \E w \in files : Worker(w)
    \/ CloseEntries \/ CloseErrs
    \/ RecvEntry \/ RecvErr \/ Cancel
    \/ \E f \in files : Writer(f)

Spec == Init /\ [][Next]_vars

(***************************************************************************)
(* Two files are tailed.                                                   *)
(***************************************************************************)
PairInit ==
    /\ Started(Paths, PreLines)
    /\ tailLines = 0
    /\ opsLeft = PairOps
    /\ pIn = NoInput
    /\ pOut = NoOutput

PairSpec == PairInit /\ [][Next]_vars

(***************************************************************************)
(* The parser on its own: parseEntry applied to one sampled input.         *)
(***************************************************************************)
TsExps == {0, 8, 9, 11, 12, 14, 15, 17, 18}

\* whole numbers up to 1.7e18, which int64 and float64 hold exactly
TsNumbers == {Dec(1, e) : e \in TsExps} \cup {Dec(17, e) : e \in TsExps \ {18}}

TsValues ==
    {JNum(n) : n \in TsNumbers} \cup
    {JNil, JStr("2024-01-01T00:00:00Z"), JStr("1700000000"), JStr("yesterday"),
     JBool("true")}

SampleObjects ==
    {JsonObject([NoFields EXCEPT !["timestamp"] = ts, !["message"] = msg,
                                 !["@file"] = file]) :
        ts \in TsValues, msg \in {JNil, JStr("hello")},
        file \in {JNil, JStr("other.log")}}

SampleLines ==
    {<<u>> : u \in SampleObjects} \cup
    {<<JsonOther(k)>> : k \in {"null", "array", "string", "number", "bool", "bad"}} \cup
    {<<>>, <<CR>>, <<SeqLine(1), SeqLine(2)>>, <<SeqLine(1), CR>>}

SampleConfigs ==
    {ParserConfig(<<>>), ParserConfig(<<"@file">>), ParserConfig(<<"level", "@file">>)}

ParseInit ==
    /\ Started({}, 0)
    /\ tailLines = 0
    /\ opsLeft = 0
    /\ pIn \in [path : Paths, line : SampleLines, cfg : SampleConfigs]
    /\ pOut = NoOutput

\* parseEntry(path, line, cfg)
ParseStep ==
    /\ ~pOut.done
    /\ LET r == parseEntry(pIn.path, pIn.line, pIn.cfg) IN
        pOut' = [done |-> TRUE, err |-> r.err, entry |-> r.entry]
    /\ UNCHANGED <<tailVars, pIn>>

ParseSpec == ParseInit /\ [][ParseStep]_vars

(***************************************************************************)
(* What the claims speak of.                                               *)
(***************************************************************************)
\* the worker has nothing left to do for its file: it waits in the select
\* loop, its cursor is at the end of the file, and the consumer holds
\* everything it placed
CaughtUp(w) ==
    /\ pc[w] = "loop"
    /\ dirent[w] # 0
    /\ state[w] = [offset |-> Len(ino[dirent[w]]), pending |-> <<>>]
    /\ SeqFilterPath(entries, w) = <<>>

\* the line is one JSON object, white space aside
IsObjectLine(line) ==
    /\ Cardinality({i \in 1..Len(line) : line[i] # CR}) = 1
    /\ \E i \in 1..Len(line) : line[i].t = "obj"

\* the entries of the lines ls that are objects, in order
RECURSIVE ObjectEntries(_, _)
ObjectEntries(w, ls) ==
    IF ls = <<>> THEN <<>>
    ELSE IF IsObjectLine(Head(ls))
    THEN <<parseEntry(w, Head(ls), Parser).entry>> \o ObjectEntries(w, Tail(ls))
    ELSE ObjectEntries(w, Tail(ls))

\* the whole lines a file holds
FileLines(f) == ScanLines(ino[dirent[f]])

\* the range loop over the batch ran to its end
BatchOver(w) == pc[w] \in {"emitInitial", "emitNew"} /\ idx[w] > Len(lines[w])

\* C1: for a file that existed from the start and only grew by whole valid
\* lines, with no tail cut and no cancellation, a worker that has caught up
\* has delivered exactly the lines of the file, each once, in file order.
C1_AppendedLinesDelivered ==
    \A w \in files :
        (pure[w] /\ tailLines = 0 /\ ~cancelled /\ CaughtUp(w))
            => SeqFilterPath(delivered, w) = ObjectEntries(w, FileLines(w))

\* C2: once cancellation is signaled, every worker that has not returned can
\* take its next step without the consumer receiving anything.
C2_CancelledWorkerNeverWaitsForConsumer ==
    \A w \in files : (cancelled /\ pc[w] # "done") => ENABLED Worker(w)

\* C3: after cancellation has been signaled no step places a further entry
\* on the entry stream.
C3_NoEntryPlacedAfterCancel ==
    [][cancelled => Len(delivered') + Len(entries') = Len(delivered) + Len(entries)]_vars

\* every worker has returned from tailFile
WorkersDone == \A w \in files : pc[w] = "done"

\* the closer goroutine runs to its end once wg.Wait returns
PairLive == PairSpec /\ WF_vars(CloseEntries) /\ WF_vars(CloseErrs)

\* C4: neither stream is closed while a worker still runs, and once every
\* worker has returned both streams are eventually closed.
C4_ClosedIffAllWorkersDone ==
    /\ []((entriesClosed \/ errsClosed) => WorkersDone)
    /\ WorkersDone ~> (entriesClosed /\ errsClosed)

\* both streams are closed after two workers returned
C4_Witness == files = Paths /\ WorkersDone /\ entriesClosed /\ errsClosed

\* the other file is absent or unreadable, or its worker is sending an
\* error or waiting for the file to reappear
Troubled(w) ==
    \/ dirent[w] = 0
    \/ ~readable[w]
    \/ pc[w] \in {"setupErr", "initErr", "tailErr", "reappear"}

\* C5: while the other file is in trouble and nothing is cancelled, a worker
\* that has caught up with a file that only grew by whole valid lines has
\* delivered every line of it.
C5_HealthyFileUnaffected ==
    (/\ files = Paths
     /\ pure["a.log"]
     /\ ~cancelled
     /\ Troubled("b.log")
     /\ CaughtUp("a.log"))
        => SeqFilterPath(delivered, "a.log") = ObjectEntries("a.log", FileLines("a.log"))

\* C6: after a file was cut below the cursor and content was written again,
\* a worker that has caught up has placed, since the cut, an entry for every
\* valid line the file now holds, in file order.
C6_TruncatedContentEmittedAgain ==
    \A w \in files :
        (/\ mark[w] >= 0
         /\ ~cancelled
         /\ CaughtUp(w)
         /\ ino[dirent[w]] # <<>>)
            => IsSuffix(ObjectEntries(w, FileLines(w)), Drop(SentOf(w), mark[w]))

\* the batch holds object lines and exactly one malformed line
OneMalformed(ls) ==
    /\ Cardinality({i \in 1..Len(ls) : ls[i] = <<Malformed>>}) = 1
    /\ \A i \in 1..Len(ls) : ls[i] = <<Malformed>> \/ IsObjectLine(ls[i])

\* C7: when the loop has run through a batch of object lines and one
\* malformed line, it has placed exactly one ParseError, naming the worker's
\* path, and the entries of all the object lines, in file order.
C7_OneMalformedLine ==
    \A w \in files :
        (BatchOver(w) /\ OneMalformed(lines[w]))
            => /\ bErrs[w] = <<ParseError(w)>>
               /\ bSent[w] = ObjectEntries(w, lines[w])

\* a finished batch of three lines with the malformed one in the middle
C7_Witness ==
    \E w \in files :
        /\ BatchOver(w)
        /\ OneMalformed(lines[w])
        /\ Len(lines[w]) = 3
        /\ lines[w][2] = <<Malformed>>
        /\ Len(bSent[w]) = 2

\* every line is a JSON object
AllObjects(ls) == \A i \in 1..Len(ls) : IsObjectLine(ls[i])

\* the last k elements
LastK(ls, k) == SubSeq(ls, Len(ls) - k + 1, Len(ls))

\* C8: when the initial read found M object lines, the startup loop run to
\* its end has placed the entries of the last min(tailLines, M) of them, or
\* of all M when tailLines is 0, oldest first, and the worker has placed
\* nothing else before.
C8_TailLinesAtStartup ==
    \A w \in files :
        (pc[w] = "emitInitial" /\ BatchOver(w) /\ AllObjects(scanned[w]))
            => LET M == Len(scanned[w])
                   k == IF tailLines > 0 THEN Min(tailLines, M) ELSE M
               IN /\ bSent[w] = ObjectEntries(w, LastK(scanned[w], k))
                  /\ SentOf(w) = bSent[w]

\* one of two lines is kept: the second
C8_Witness ==
    \E w \in files :
        /\ pc[w] = "emitInitial" /\ BatchOver(w) /\ AllObjects(scanned[w])
        /\ tailLines = 1
        /\ Len(scanned[w]) = 2
        /\ bSent[w] = <<parseEntry(w, scanned[w][2], Parser).entry>>

\* C9: parse yields a ParseError and no entry for every line that is not a
\* JSON object, and an entry only for a line that is one.
C9_OnlyObjectsParse ==
    pOut.done =>
        IF IsObjectLine(pIn.line)
        THEN pOut.err = NoError /\ pOut.entry.Raw = pIn.line
        ELSE pOut.err = ParseError(pIn.path) /\ pOut.entry = NoEntry

\* 1700000000 s, ms, us and ns since the epoch, as JSON numbers
SameInstant == {JNum(Dec(17, 8)), JNum(Dec(17, 11)), JNum(Dec(17, 14)), JNum(Dec(17, 17))}

\* C10: the four numeric timestamps that write the instant 1700000000 s in
\* seconds, milliseconds, microseconds and nanoseconds all resolve to that
\* instant.
C10_FourUnitsOneInstant ==
    (pOut.done /\ pOut.err = NoError /\ pOut.entry.Fields["timestamp"] \in SameInstant)
        => pOut.entry.Timestamp = [zero |-> FALSE, ns |-> Dec(17, 17)]

(***************************************************************************)
(* One file that does not exist when the worker starts.                    *)
(***************************************************************************)
\* the writers may do this many operations on a file that starts absent
AbsentOps == 3

\* b.log alone is tailed; it does not exist
AbsentInit ==
    /\ Started({"b.log"}, 0)
    /\ tailLines = 0
    /\ opsLeft = AbsentOps
    /\ pIn = NoInput
    /\ pOut = NoOutput

\* the worker's initial read is behind it
InitialReadDone(w) == pc[w] \notin {"start", "setupErr", "initial", "initStat"}

\* the path comes into being only after the initial read missed it
CreateLate(f) == InitialReadDone(f) /\ Create(f)

\* tailFile without the part of readAll that follows a successful open
AbsentWorker(w) ==
    \/ SetupWatcher(w) \/ SetupFails(w) \/ SendErr(w)
    \/ ReadAllScan(w) \/ ReadNew(w)
    \/ EmitSkip(w) \/ EmitError(w) \/ EmitEntry(w) \/ EmitCancelled(w) \/ EmitReturn(w)
    \/ LoopCancelled(w) \/ Tick(w) \/ EventWrite(w) \/ EventReplace(w)
    \/ Reappeared(w) \/ ReadAfterWait(w)

AbsentNext ==
    \/ \E w \in files : AbsentWorker(w)
    \/ CloseEntries \/ CloseErrs
    \/ RecvEntry \/ RecvErr \/ Cancel
    \/ \E f \in files : CreateLate(f) \/ AppendLine(f) \/ Truncate(f) \/ Remove(f) \/ Chmod(f)

AbsentSpec == AbsentInit /\ [][AbsentNext]_vars

\* an error naming the path of w is placed on errs in this step
ErrPlaced(w) == \E kind \in {"watch", "initial read", "tail", "parse"} :
                    errs' = Append(errs, Err(w, kind))

\* the worker w takes a step that starts a read of its file
StartsRead(w) ==
    \/ pc[w] = "initial" /\ pc'[w] # "initial"
    \/ pc[w] = "readNewData" /\ pc'[w] # "readNewData"
    \/ pc[w] = "loop" /\ pc'[w] \notin {"done", "reappear"} /\ events'[w] # events[w]
    \/ pc[w] = "loop" /\ pc'[w] \in {"readNew", "tailErr"}

\* C11: a read started while the file does not exist places no error, leaves
\* the cursor as it was and brings the worker back to its select loop; and a
\* worker that has caught up with a file that appeared after its initial
\* read and only grew by whole valid lines has placed every line of it.
C11_AbsentFileSwallowed ==
    /\ [][\A w \in files :
            (dirent[w] = 0 /\ StartsRead(w))
                => /\ ~ErrPlaced(w)
                   /\ state'[w] = state[w]
                   /\ pc'[w] = "loop"]_vars
    /\ [](\A w \in files :
            (pure[w] /\ ~cancelled /\ CaughtUp(w))
                => IsSuffix(ObjectEntries(w, FileLines(w)), SentOf(w)))

\* the file was missed by the initial read, appeared, got two lines, and
\* both were delivered
C11_Witness ==
    /\ files = {"b.log"}
    /\ pure["b.log"] /\ ~cancelled /\ CaughtUp("b.log")
    /\ Len(FileLines("b.log")) = 2
    /\ SeqFilterPath(delivered, "b.log") = ObjectEntries("b.log", FileLines("b.log"))

\* C12: every entry parsed under a configuration that lists "@file" among
\* its extra fields maps that name to the tailed path, whatever the object
\* holds under that name.
C12_VirtualFileExtra ==
    (pOut.done /\ pOut.err = NoError /\ "@file" \in Range(pIn.cfg.ExtraFields))
        => /\ "@file" \in DOMAIN pOut.entry.Extras
           /\ pOut.entry.Extras["@file"] = Lit(pIn.path)

\* an object with a field "@file" of another value was parsed, "@file" being
\* the second extra field
C12_Witness ==
    /\ pOut.done /\ pOut.err = NoError
    /\ pIn.cfg.ExtraFields = <<"level", "@file">>
    /\ pOut.entry.Fields["@file"] = JStr("other.log")
    /\ pOut.entry.Extras["@file"] = Lit(pIn.path)

\* the worker w opens its file in this step, or takes a notification
ReadsOrHandles(w) ==
    \/ pc'[w] \in {"initStat", "readNew", "tailErr", "initErr"} /\ pc'[w] # pc[w]
    \/ pc[w] = "loop" /\ events'[w] # events[w] /\ pc'[w] # "done"

\* C13: once cancellation is signaled no worker opens its file again, for
\* the initial read, an incremental read or the read after the wait for
\* reappearance, and none takes a notification from its watcher.
C13_NoReadAfterCancel ==
    [][cancelled => \A w \in files : ~ReadsOrHandles(w)]_vars

(***************************************************************************)
(* Rotation: the writers remove or rename the path away, create it again   *)
(* and append whole lines.                                                 *)
(***************************************************************************)
\* the writers may do this many operations while rotating
RotateOps == 3

RotateInit ==
    /\ Started({"a.log"}, PreLines)
    /\ tailLines = 0
    /\ opsLeft = RotateOps
    /\ pIn = NoInput
    /\ pOut = NoOutput

RotateNext ==
    \/ \E w \in files : Worker(w)
    \/ CloseEntries \/ CloseErrs
    \/ RecvEntry \/ RecvErr \/ Cancel
    \/ \E f \in files : Remove(f) \/ Create(f) \/ AppendLine(f)

RotateSpec == RotateInit /\ [][RotateNext]_vars

\* the entries the worker placed since the path was created again
SinceBorn(w) == Drop(SentOf(w), born[w])

\* s is the beginning of t
IsPrefix(s, t) == Len(s) <= Len(t) /\ SubSeq(t, 1, Len(s)) = s

\* C14: after the path was created again, the entries the worker has placed
\* since are at every moment the first lines of the new file, in file order
\* and none twice, and a worker that has caught up has placed all of them.
C14_RotatedLinesOnce ==
    \A w \in files :
        (born[w] >= 0 /\ dirent[w] # 0)
            => /\ IsPrefix(SinceBorn(w), ObjectEntries(w, FileLines(w)))
               /\ (~cancelled /\ CaughtUp(w))
                    => SinceBorn(w) = ObjectEntries(w, FileLines(w))

\* the bytes of the terminated lines ls, carriage returns apart
RECURSIVE BytesOf(_)
BytesOf(ls) == IF ls = <<>> THEN 0 ELSE Len(Head(ls)) + 1 + BytesOf(Tail(ls))

\* C15: while the lines of the initial read are emitted, the cursor stands
\* at the end of the bytes the initial scan went through.
C15_InitialOffsetIsScannedBytes ==
    \A w \in files :
        pc[w] = "emitInitial" => state[w].offset = BytesOf(scanned[w])

(***************************************************************************)
(* Bytes arriving one at a time: after the initial read the writers append *)
(* single units, so that a line may reach the file in several pieces and   *)
(* the file may start or stay without a final terminator.                  *)
(***************************************************************************)
\* the writers may append this many units
ChunkOps == 3

\* what a.log may hold at Start
ChunkStarts ==
    {<<>>, <<SeqLine(1)>>, <<SeqLine(1), NL>>, <<SeqLine(1), NL, Malformed>>,
     <<Malformed, CR>>}

ChunkInit ==
    /\ \E c \in ChunkStarts : StartedWith({"a.log"}, c)
    /\ tailLines = 0
    /\ opsLeft = ChunkOps
    /\ pIn = NoInput
    /\ pOut = NoOutput

\* one unit is appended once the initial read is over
AppendUnit(f) ==
    /\ opsLeft > 0
    /\ dirent[f] # 0
    /\ InitialReadDone(f)
    /\ \E u \in {SeqLine(1), Malformed, CR, NL}, seen \in BOOLEAN :
        /\ ino' = [ino EXCEPT ![dirent[f]] = Append(@, u)]
        /\ events' = Notify(f, "write", seen)
    /\ pure' = [pure EXCEPT ![f] = FALSE]
    /\ opsLeft' = opsLeft - 1
    /\ UNCHANGED <<cfgVars, born, readable, mark, dirent, cancelled, pc, state, fd, watcher,
                   chanVars, delivered, scanned, reads, batchVars, parseVars>>

\* tailFile while nothing is cancelled and the path stays
ChunkWorker(w) ==
    \/ SetupWatcher(w) \/ SetupFails(w) \/ SendErr(w)
    \/ ReadAllScan(w) \/ ReadAllStat(w) \/ ReadNew(w)
    \/ EmitSkip(w) \/ EmitError(w) \/ EmitEntry(w) \/ EmitReturn(w)
    \/ Tick(w) \/ EventWrite(w)

ChunkNext ==
    \/ \E w \in files : ChunkWorker(w)
    \/ RecvEntry \/ RecvErr
    \/ \E f \in files : AppendUnit(f)

ChunkSpec == ChunkInit /\ [][ChunkNext]_vars

\* the lines of data that end in a terminator, a carriage return before it
\* dropped
RECURSIVE TerminatedLines(_)
TerminatedLines(data) ==
    LET i == indexOfNewline(data) IN
    IF i = 0 THEN <<>>
    ELSE <<dropCR(SubSeq(data, 1, i - 1))>> \o TerminatedLines(Drop(data, i))

\* what follows the last terminator of data
RECURSIVE Unterminated(_)
Unterminated(data) ==
    LET i == indexOfNewline(data) IN
    IF i = 0 THEN data ELSE Unterminated(Drop(data, i))

\* the lines the incremental reads returned, one read after the other
RECURSIVE ReturnedLines(_)
ReturnedLines(rs) ==
    IF rs = <<>> THEN <<>> ELSE Head(rs).lines \o ReturnedLines(Tail(rs))

\* the bytes of its file the worker's cursor has passed
Passed(w) == SubSeq(ino[dirent[w]], 1, state[w].offset)

\* C16: the lines the initial read and the reads after it have returned are
\* at every moment the terminated lines of the bytes the cursor has passed:
\* bytes that follow the last terminator are in no line yet, and once their
\* terminator is there they are one line, returned once.
C16_OnlyTerminatedLines ==
    \A w \in files :
        pc[w] \in {"emitInitial", "emitNew", "loop"}
            => scanned[w] \o ReturnedLines(reads[w]) = TerminatedLines(Passed(w))

\* C17: for a file that was empty at the initial read and grows unit by
\* unit, however the reads fall between the units, the lines the reads have
\* returned are the terminated lines of the bytes passed, and pending holds
\* the bytes after the last terminator.
C17_SplitLinesReassembled ==
    \A w \in files :
        (scanned[w] = <<>> /\ pc[w] \in {"emitNew", "loop"})
            => /\ ReturnedLines(reads[w]) = TerminatedLines(Passed(w))
               /\ state[w].pending = Unterminated(Passed(w))

\* a read left a unit pending and the next read returned it as the first
\* part of a line of two units
C17_Witness ==
    \E w \in files :
        /\ scanned[w] = <<>> /\ pc[w] = "emitNew"
        /\ Len(reads[w]) = 2
        /\ reads[w][1] = [lines |-> <<>>, pending |-> <<Malformed>>]
        /\ reads[w][2].lines = <<(<<Malformed, SeqLine(1)>>)>>

(***************************************************************************)
(* Reads that fail: reader.ReadString may return an error that is not end  *)
(* of file, at its first call or after calls that went well.               *)
(***************************************************************************)
\* the number of ReadString calls that return bytes of data
NumChunks(data) == NumLines(data) + (IF Unterminated(data) = <<>> THEN 0 ELSE 1)

\* the loop of readNewLines (lines 395-419) through its first k chunks
RECURSIVE ReadChunks(_, _, _, _)
ReadChunks(data, s, acc, k) ==
    IF data = <<>> \/ k = 0 THEN [state |-> s, lines |-> acc]
    ELSE LET i == indexOfNewline(data)
             n == IF i = 0 THEN Len(data) ELSE i
             x == ExtractLines(s.pending \o SubSeq(data, 1, n), acc)
         IN ReadChunks(Drop(data, n),
                       [offset |-> s.offset + n, pending |-> x.pending],
                       x.lines, k - 1)

\* readNewLines, lines 396-399: after k chunks ReadString fails; the lines
\* gathered so far are returned with the error, and readNewData (lines
\* 254-259) sends the error and drops them
ReadNewFails(w) ==
    /\ pc[w] = "readNew"
    /\ opsLeft > 0
    /\ \E k \in 0..NumChunks(Drop(ino[fd[w]], state[w].offset)) :
        state' = [state EXCEPT ![w] =
                    ReadChunks(Drop(ino[fd[w]], state[w].offset), state[w], <<>>, k).state]
    /\ opsLeft' = opsLeft - 1
    /\ ino' = Closed(w, ino)
    /\ fd' = [fd EXCEPT ![w] = 0]
    /\ pc' = [pc EXCEPT ![w] = "tailErr"]
    /\ UNCHANGED <<cfgVars, born, dirent, readable, pure, mark, cancelled, watcher, events,
                   chanVars, delivered, scanned, reads, batchVars, parseVars>>

\* lines 294-298: watcher.Events is found closed; the worker gives up its
\* watcher and goes on polling
EventsClosed(w) ==
    /\ pc[w] = "loop"
    /\ watcher[w]
    /\ opsLeft > 0
    /\ watcher' = [watcher EXCEPT ![w] = FALSE]
    /\ events' = [events EXCEPT ![w] = <<>>]
    /\ opsLeft' = opsLeft - 1
    /\ UNCHANGED <<cfgVars, ino, dirent, readable, pure, mark, born, cancelled, pc, state,
                   fd, chanVars, delivered, scanned, reads, batchVars, parseVars>>

FaultNext == Next \/ \E w \in files : ReadNewFails(w) \/ EventsClosed(w)

FaultSpec == Init /\ [][FaultNext]_vars

\* C18: an incremental read that fails leaves offset and pending as they
\* were when it began, so that the next read starts from the same data; its
\* one error is then sent from the position the worker has reached.
C18_FailedReadKeepsCursor ==
    [][\A w \in files :
        (~cancelled /\ pc[w] \in {"loop", "readNewData", "readNew"} /\ pc'[w] = "tailErr")
            => state'[w] = state[w]]_vars

\* C19: a worker has returned only if cancellation was signaled, and no
\* stream is closed before that, whatever failed: the setup of the watcher,
\* an open or a read, a line that does not parse, a missing file, a closed
\* notification channel.
C19_ReturnsOnlyOnCancel ==
    /\ \A w \in files : pc[w] = "done" => cancelled
    /\ (entriesClosed \/ errsClosed) => cancelled

\* without cancellation a worker is back in its select loop, polling, after
\* a read of its file failed and the error was sent
C19_Witness ==
    \E w \in files :
        /\ ~cancelled
        /\ pc[w] = "loop"
        /\ ~watcher[w]
        /\ errs = <<Err(w, "tail")>>

(***************************************************************************)
(* Polling: whole lines are appended to a file that stays, and no          *)
(* notification of any append reaches the worker.                          *)
(***************************************************************************)
\* the writers may append this many lines unnoticed
PollOps == 2

PollInit ==
    /\ Started({"a.log"}, PreLines)
    /\ tailLines \in TailLinesChoices
    /\ opsLeft = PollOps
    /\ pIn = NoInput
    /\ pOut = NoOutput

\* a line is appended while the worker is past its initial read, and the
\* worker gets no notification
AppendQuiet(f) == InitialReadDone(f) /\ AppendLine(f) /\ events' = events

\* tailFile while nothing is cancelled, the path stays and no event arrives
PollWorker(w) ==
    \/ SetupWatcher(w) \/ SetupFails(w) \/ SendErr(w)
    \/ ReadAllScan(w) \/ ReadAllStat(w) \/ ReadNew(w)
    \/ EmitSkip(w) \/ EmitError(w) \/ EmitEntry(w) \/ EmitReturn(w)
    \/ Tick(w)

PollNext ==
    \/ \E w \in files : PollWorker(w)
    \/ RecvEntry \/ RecvErr
    \/ \E f \in files : AppendQuiet(f)

\* the worker's goroutine keeps running, the ticker keeps ticking and the
\* consumer keeps receiving from both channels
PollLive ==
    /\ PollInit /\ [][PollNext]_vars
    /\ WF_vars(PollWorker("a.log"))
    /\ WF_vars(RecvEntry) /\ WF_vars(RecvErr)

\* the file of w holds the valid line number k
HoldsLine(w, k) ==
    /\ dirent[w] # 0
    /\ \E i \in 1..Len(ino[dirent[w]]) : ino[dirent[w]][i] = SeqLine(k)

\* the consumer has received the entry of line k of w
Received(w, k) ==
    \E i \in 1..Len(delivered) :
        delivered[i] = parseEntry(w, <<SeqLine(k)>>, Parser).entry

\* C20: with or without a watcher, every valid line appended to the file
\* while the worker is in its select loop is in the end received by the
\* consumer, although no notification of the append ever arrives: the tick
\* alone makes the worker read.
C20_TickAlonePublishes ==
    \A k \in (PreLines + 1)..(PreLines + PollOps) :
        HoldsLine("a.log", k) ~> Received("a.log", k)

\* polling without a watcher, the worker has published an appended line
C20_Witness ==
    /\ ~watcher["a.log"]
    /\ pc["a.log"] = "loop"
    /\ HoldsLine("a.log", PreLines + 1)
    /\ Received("a.log", PreLines + 1)

\* C21: a worker that leaves the watcher setup without a watcher sends one
\* error for it and then performs the initial read; a worker without a
\* watcher, from the start or since its notification channel was closed,
\* never gets one again, takes no notification, and leaves its select loop
\* only for a read or to return.
C21_DegradesToPolling ==
    [][\A w \in files :
        /\ (pc[w] = "start" /\ pc'[w] # "start" /\ ~watcher'[w]) => pc'[w] = "setupErr"
        /\ pc'[w] = "setupErr" => pc[w] \in {"start", "setupErr"}
        /\ (pc[w] = "setupErr" /\ pc'[w] # "setupErr")
                => /\ errs' = Append(errs, Err(w, "watch"))
                   /\ pc'[w] = "initial"
        /\ (~watcher[w] /\ pc[w] # "start")
                => /\ ~watcher'[w]
                   /\ events'[w] = <<>>
                   /\ (pc[w] = "loop" /\ pc'[w] # "loop")
                        => pc'[w] \in {"readNew", "tailErr", "done"}]_vars

\* after its notification channel was closed the worker has read a line
\* that a tick made it find
C21_Witness ==
    \E w \in files :
        /\ ~cancelled
        /\ ~watcher[w]
        /\ pc[w] = "emitNew"
        /\ lines[w] # <<>>
        /\ scanned[w] # <<>>

(***************************************************************************)
(* The notifications of the whole directory: the watcher is added to the   *)
(* directory of the path (lines 237-239), so it also delivers events that  *)
(* name other files, events whose name is spelled differently, and events  *)
(* whose Op has none of the bits the loop looks at.                        *)
(***************************************************************************)
EventNames(w) == {PathName(w), <<".", w>>, <<"other.log">>}

EventOps == {{"write"}, {"remove"}, {"chmod"}, {"write", "remove"}}

\* the kernel reports something in the directory of w
DirEvent(w) ==
    /\ watcher[w]
    /\ opsLeft > 0
    /\ Len(events[w]) < MaxEvents
    /\ \E name \in EventNames(w), ops \in EventOps :
            events' = [events EXCEPT ![w] = Append(@, Event(name, ops))]
    /\ opsLeft' = opsLeft - 1
    /\ UNCHANGED <<cfgVars, ino, dirent, readable, pure, mark, born, cancelled, pc, state,
                   fd, watcher, chanVars, delivered, scanned, reads, batchVars, parseVars>>

\* lines 294-308: an event that does not name the path, or that has none of
\* the bits Write, Remove, Rename and Create, is taken and dropped
EventIgnored(w) ==
    /\ pc[w] = "loop"
    /\ watcher[w]
    /\ events[w] # <<>>
    /\ \/ ~eventHasPath(Head(events[w]), w)
       \/ Head(events[w]).Op \cap {"write", "remove", "rename", "create"} = {}
    /\ events' = [events EXCEPT ![w] = Tail(@)]
    /\ UNCHANGED <<cfgVars, fsVars, cancelled, pc, state, fd, watcher, chanVars,
                   delivered, scanned, reads, batchVars, parseVars>>

WatchNext == Next \/ \E w \in files : DirEvent(w) \/ EventIgnored(w)

WatchSpec == Init /\ [][WatchNext]_vars

\* the worker w takes the event at the head of its queue in this step
TakesEvent(w) ==
    /\ pc[w] = "loop"
    /\ watcher[w] /\ watcher'[w]
    /\ events[w] # <<>>
    /\ events'[w] = Tail(events[w])

\* C22: taking an event whose cleaned name is not the cleaned path leaves
\* the worker in its loop, opens nothing, and leaves the cursor and both
\* streams as they were; taking an event that names the path and has the
\* Write bit starts one read (or finds the file missing or unreadable) and
\* calls no reset: the cursor entering the read is the one the worker had,
\* but for the truncation test of the read itself.
C22_OnlyOwnPathIsRead ==
    [][\A w \in files : TakesEvent(w) =>
        LET ev == Head(events[w]) IN
        /\ Clean(ev.Name) # Clean(PathName(w))
                => /\ pc'[w] = "loop"
                   /\ state'[w] = state[w]
                   /\ fd' = fd
                   /\ reads' = reads
                   /\ entries' = entries
                   /\ errs' = errs
        /\ (Clean(ev.Name) = Clean(PathName(w)) /\ "write" \in ev.Op)
                => /\ pc'[w] \in {"readNew", "tailErr", "loop"}
                   /\ pc'[w] = "readNew" <=> (dirent[w] # 0 /\ readable[w])
                   /\ \/ state'[w] = state[w]
                      \/ /\ pc'[w] = "readNew"
                         /\ Len(ino[dirent[w]]) < state[w].offset
                         /\ state'[w] = reset
                   /\ entries' = entries
                   /\ errs' = errs]_vars

\* the worker is in its loop with unread data in its file, and the event it
\* is about to take names another file of the directory
C22_Witness ==
    \E w \in files :
        /\ pc[w] = "loop"
        /\ watcher[w]
        /\ ~cancelled
        /\ dirent[w] # 0
        /\ readable[w]
        /\ Len(ino[dirent[w]]) > state[w].offset
        /\ events[w] = <<Event(<<"other.log">>, {"write"})>>

\* the worker w enters readNewLines in this step and finds its file shorter
\* than its offset
FindsTruncation(w) ==
    /\ pc[w] \in {"loop", "readNewData"}
    /\ pc'[w] = "readNew"
    /\ Len(ino[dirent[w]]) < state[w].offset

\* C23: in no step does the offset of a worker decrease unless the step
\* leaves offset 0 and pending empty, and such a step is the truncation
\* test of an incremental read or the handling of a remove, rename or
\* create notification; each of these two steps resets offset and pending
\* together.
C23_OffsetDecreasesOnlyByReset ==
    [][\A w \in files :
        /\ state'[w].offset < state[w].offset
                => /\ state'[w] = reset
                   /\ FindsTruncation(w) \/ (pc[w] = "loop" /\ pc'[w] = "reappear")
        /\ FindsTruncation(w) => state'[w] = reset
        /\ (pc[w] = "loop" /\ pc'[w] = "reappear") => state'[w] = reset]_vars

\* an incremental read had advanced the cursor; the file was cut, and the
\* next read has put the cursor back to the start
C23_Witness ==
    \E w \in files :
        /\ pc[w] = "readNew"
        /\ reads[w] # <<>>
        /\ state[w] = reset
        /\ ino[fd[w]] = <<>>

(***************************************************************************)
(* Long lines: a writer that adds runs of bytes without a terminator.      *)
(***************************************************************************)
LongOps == 2

\* n bytes that hold no terminator
Run(n) == [i \in 1..n |-> Malformed]

\* what a.log may hold at Start
LongStarts ==
    {<<>>, <<SeqLine(1), NL>>, Run(LineCap - 1), Run(LineCap),
     Run(LineCap - 1) \o <<NL>>, Run(LineCap) \o <<NL>>}

LongInit ==
    /\ \E c \in LongStarts : StartedWith({"a.log"}, c)
    /\ tailLines = 0
    /\ opsLeft = LongOps
    /\ pIn = NoInput
    /\ pOut = NoOutput

\* a run of bytes or a terminator is appended once the initial read is over
AppendRun(f) ==
    /\ opsLeft > 0
    /\ dirent[f] # 0
    /\ InitialReadDone(f)
    /\ \E r \in {Run(LineCap), <<Malformed>>, <<NL>>}, seen \in BOOLEAN :
        /\ ino' = [ino EXCEPT ![dirent[f]] = @ \o r]
        /\ events' = Notify(f, "write", seen)
    /\ pure' = [pure EXCEPT ![f] = FALSE]
    /\ opsLeft' = opsLeft - 1
    /\ UNCHANGED <<cfgVars, born, readable, mark, dirent, cancelled, pc, state, fd, watcher,
                   chanVars, delivered, scanned, reads, batchVars, parseVars>>

LongNext ==
    \/ \E w \in files : ChunkWorker(w)
    \/ RecvEntry \/ RecvErr
    \/ \E f \in files : AppendRun(f)

LongSpec == LongInit /\ [][LongNext]_vars

\* data holds a line, terminated or not, of more than LineCap bytes
RECURSIVE HasLongLine(_)
HasLongLine(data) ==
    LET i == indexOfNewline(data) IN
    IF i > 0 THEN i - 1 > LineCap \/ HasLongLine(Drop(data, i))
    ELSE Len(data) > LineCap

\* C24: pending never holds more than LineCap bytes; an initial read of a
\* file that holds a line longer than LineCap ends in an error, and so does
\* an incremental read whose pending and new data hold such a line.
C24_LinesWithinCap ==
    /\ [](\A w \in files : Len(state[w].pending) <= LineCap)
    /\ [][\A w \in files :
            /\ (/\ pc[w] = "initial" /\ pc'[w] # "initial"
                /\ dirent[w] # 0
                /\ HasLongLine(ino[dirent[w]]))
                    => pc'[w] = "initErr"
            /\ (/\ pc[w] = "readNew" /\ pc'[w] # "readNew"
                /\ HasLongLine(state[w].pending \o Drop(ino[fd[w]], state[w].offset)))
                    => pc'[w] = "tailErr"]_vars

\* C25: while a file is only appended to, whenever an incremental read has
\* returned without error, pending holds no terminator, the offset is not
\* beyond the end of the file, and pending is the bytes of the file that
\* end at the offset.
C25_PendingIsTailOfPassed ==
    \A w \in files :
        pc[w] \in {"emitNew", "loop"}
            => /\ indexOfNewline(state[w].pending) = 0
               /\ state[w].offset <= Len(ino[dirent[w]])
               /\ Len(state[w].pending) <= state[w].offset
               /\ state[w].pending =
                    SubSeq(ino[dirent[w]],
                           state[w].offset - Len(state[w].pending) + 1, state[w].offset)

\* the initial read took an unterminated line; the reads after it returned
\* the blank line its terminator made and kept the byte that followed
C25_Witness ==
    \E w \in files :
        /\ pc[w] = "emitNew"
        /\ scanned[w] = <<(<<SeqLine(1)>>)>>
        /\ state[w] = [offset |-> 3, pending |-> <<Malformed>>]
        /\ lines[w] = <<(<<>>)>>

\* the lines of ls that are not blank
NonBlank(ls) == SelectSeq(ls, LAMBDA l : l # <<>>)

\* what parseEntry makes of every line of ls: the entries of the lines that
\* parse, and the errors of those that do not
RECURSIVE EntriesOf(_, _)
EntriesOf(w, ls) ==
    IF ls = <<>> THEN <<>>
    ELSE LET r == parseEntry(w, Head(ls), Parser)
         IN (IF r.err = NoError THEN <<r.entry>> ELSE <<>>) \o EntriesOf(w, Tail(ls))

RECURSIVE ErrorsOf(_, _)
ErrorsOf(w, ls) ==
    IF ls = <<>> THEN <<>>
    ELSE LET r == parseEntry(w, Head(ls), Parser)
         IN (IF r.err = NoError THEN <<>> ELSE <<r.err>>) \o ErrorsOf(w, Tail(ls))

\* C26: when the loop has run through a batch, of the initial read or of an
\* incremental read, the entries and the errors it has placed are those of
\* the batch with its blank lines taken out: a blank line adds no entry and
\* no error and changes nothing for the lines around it.
C26_BlankLinesLeaveNoTrace ==
    \A w \in files :
        BatchOver(w)
            => /\ bSent[w] = EntriesOf(w, NonBlank(lines[w]))
               /\ bErrs[w] = ErrorsOf(w, NonBlank(lines[w]))

\* a finished batch of three lines, the blank one between an object and a
\* malformed line
C26_Witness ==
    \E w \in files :
        /\ BatchOver(w)
        /\ Len(lines[w]) = 3
        /\ IsObjectLine(lines[w][1])
        /\ lines[w][2] = <<>>
        /\ lines[w][3] = <<Malformed>>
        /\ Len(bSent[w]) = 1
        /\ bErrs[w] = <<ParseError(w)>>

\* C27: with tailLines = N > 0, the batch of the initial read is the last N
\* of the raw lines readAll returned, blank and malformed ones counted; the
\* startup loop places at most N entries and errors in all, those of the
\* lines of that batch that are not blank, and so fewer than N entries when
\* one of the N lines is blank or does not parse.
C27_TailCutCountsRawLines ==
    \A w \in files :
        (pc[w] = "emitInitial" /\ tailLines > 0)
            => LET kept == LastK(scanned[w], Min(tailLines, Len(scanned[w])))
               IN /\ lines[w] = kept
                  /\ Len(bSent[w]) + Len(bErrs[w]) <= tailLines
                  /\ BatchOver(w)
                        => /\ bSent[w] = EntriesOf(w, NonBlank(kept))
                           /\ bErrs[w] = ErrorsOf(w, NonBlank(kept))
                           /\ (\E i \in 1..Len(kept) : ~IsObjectLine(kept[i]))
                                => Len(bSent[w]) < tailLines

\* the file held an object line and then a blank one; with tailLines = 1 the
\* startup loop has run to its end and placed nothing
C27_Witness ==
    \E w \in files :
        /\ pc[w] = "emitInitial" /\ BatchOver(w)
        /\ tailLines = 1
        /\ Len(scanned[w]) >= 2
        /\ IsObjectLine(scanned[w][1])
        /\ lines[w] = <<(<<>>)>>
        /\ bSent[w] = <<>>
        /\ bErrs[w] = <<>>

====
